---- MODULE Spec2Model ----
(***************************************************************************)
(* Model of the F1 reminder bot (src/main.py). Spec is the default         *)
(* (scheduling) mode; ResolveSpec is one pass over a record given as the   *)
(* strings of the schedule; LeadSpec is the loading of the lead time at    *)
(* import; ProbeSpec is the two test probes; GridSpec is the starting grid *)
(* of a Race payload; WeatherSpec is the choice of the forecast sample.    *)
(* In the default mode                                                     *)
(* schedule_all_notifications() fetches the schedule, evaluates every      *)
(* weekend and event type with schedule_event_notification(), and then     *)
(* starts an APScheduler 3.x BlockingScheduler built with its defaults.    *)
(*                                                                         *)
(* What the defaults of BlockingScheduler(timezone="UTC") mean here:       *)
(*  - add_job() on a scheduler that has not been started appends the job   *)
(*    to a list of tentative jobs; get_jobs() returns that list; start()   *)
(*    moves the list, in order, into the job store, where                  *)
(*    replace_existing=True makes a job replace the stored job of its id;  *)
(*  - the main loop hands each due job (run_date <= now), earliest first,  *)
(*    to a thread pool executor and removes it from the job store;         *)
(*  - a pool thread skips the job ("missed") when it is late by more than  *)
(*    misfire_grace_time (1 second), otherwise it calls the job function;  *)
(*    whatever the job function raises is caught and logged by the thread. *)
(*  - start() does not return when the last job has fired; shutdown()      *)
(*    stops the main loop and waits for the pool threads (wait=True).      *)
(*                                                                         *)
(* Time is a bounded integer clock. The lead time (minutes in the program) *)
(* and the misfire grace (one second) are both counted in clock units: the *)
(* program only compares instants, and nothing here rests on the ratio of  *)
(* the two. The model has fewer jobs than the pool has threads (10), so a  *)
(* submitted job never waits for a free thread.                            *)
(***************************************************************************)
EXTENDS Integers, Sequences, FiniteSets

\* ---------------------------------------------------------------- bounds
MaxStart == 2       \* session start instants are 1..MaxStart
MaxWeekends == 2    \* weekend records in the fetched schedule

\* ------------------------------------------------------ program constants
NoTime == -1        \* format_event_time's (None, None)
MisfireGrace == 1   \* job_defaults of BlockingScheduler(): misfire_grace_time

\* the clock runs 0..MaxTime: past the last fire instant and its grace
MaxTime == MaxStart + MisfireGrace

\* event_types, in the order of the pass (line 640)
event_types == <<"Race", "Qualifying", "Sprint", "FirstPractice", "SecondPractice", "ThirdPractice">>

EventTypes == {event_types[i] : i \in 1..Len(event_types)}

\* sub-records the fetched weekend records may carry (input domain)
SubTypes == {"Qualifying"}

Seasons == {2024}

\* values of NOTIFICATION_LEAD_MINUTES
Leads == {0, 1}

\* round numbers of the input records (two records may carry the same one)
Rounds == {1, 2}

\* what the weather provider answers, one forecast after the other as the
\* upstream data changes
Forecasts == <<"dry", "rain">>

TimeOpt == {NoTime} \cup (1..MaxStart)

\* a weekend record of the schedule: Race date/time at the top level, the
\* other sessions in sub-records keyed by the event type, Circuit.Location
\* present or not
SubRecords == UNION {[S -> 1..MaxStart] : S \in SUBSET SubTypes}

AllRecords == [season : Seasons, round : Rounds, time : TimeOpt, subs : SubRecords, has_location : BOOLEAN]

\* the records of the input: weekends with at most one session announced
WeekendRecords == {r \in AllRecords : r.time = NoTime \/ r.subs = <<>>}

\* outcomes of the primary grid request made for a Race payload
GridOutcomes == {"rows", "none", "transport_error"}

\* outcomes of fetch_schedule's request: the race list; a transport error or a
\* bad status; a body that is no JSON; JSON without MRData.RaceTable.Races
FetchOutcomes == {"races", "request_error", "not_json", "missing_key"}

\* outcomes of the webhook POST
PostOutcomes == {"ok", "http_error", "transport_error"}

VARIABLES now, weather, lead, pc, race, remaining, et, pending, store, queue, running, posts, sink_raised, missed, fetches, DISCORD_WEBHOOK_URL, schedule, env, args, ergast, openf1, grid_data, pairs, weather_data, event_timestamp, closest_forecast

vars == <<now, weather, lead, pc, race, remaining, et, pending, store, queue, running, posts, sink_raised, missed, fetches, DISCORD_WEBHOOK_URL, schedule, env, args, ergast, openf1, grid_data, pairs, weather_data, event_timestamp, closest_forecast>>

\* what the scheduling run never writes: the environment read at import, the
\* command line, the schedule list the probes hold as a whole, and the
\* responses and locals of the grid and weather code of one payload
conf == <<DISCORD_WEBHOOK_URL, schedule, env, args, ergast, openf1, grid_data, pairs, weather_data, event_timestamp, closest_forecast>>


\* ------------------------------------------------------- pure operators

\* format_event_time: the session's UTC start instant, or NoTime. Race reads
\* date/time off the weekend record, every other type off its sub-record.
format_event_time(race_info, event_type) ==
  IF event_type = "Race" THEN race_info.time
  ELSE IF event_type \in DOMAIN race_info.subs THEN race_info.subs[event_type]
  ELSE NoTime

\* event_dt_utc - timedelta(minutes=NOTIFICATION_LEAD_MINUTES)
notification_time(event_dt_utc) == event_dt_utc - lead

\* the gate of schedule_event_notification
gate(event_dt_utc) == event_dt_utc # NoTime /\ notification_time(event_dt_utc) > now

\* id=f"{season}_{round}_{event_type}_notification"
job_id(race_info, event_type) == <<race_info.season, race_info.round, event_type>>

\* create_discord_embed raises: KeyError when the record has no
\* Circuit.Location; for a Race, fetch_starting_grid's handler of a transport
\* error reads the unbound local `response` (UnboundLocalError).
embed_raises(race_info, event_type, grid) ==
  \/ ~race_info.has_location
  \/ event_type = "Race" /\ grid = "transport_error"

\* the embed: built from the record, the start instant and the forecast
\* fetched now
create_discord_embed(race_info, event_type, event_dt_utc) ==
  [event |-> job_id(race_info, event_type), start |-> event_dt_utc, weather |-> Forecasts[weather]]

\* the job handed to scheduler.add_job
new_job(race_info, event_type, event_dt_utc) ==
  [id |-> job_id(race_info, event_type), run_date |-> notification_time(event_dt_utc), payload |-> create_discord_embed(race_info, event_type, event_dt_utc)]

\* the job store's add with replace_existing=True
real_add_job_keep(jobs, job) == jobs \cup {job}

real_add_job(jobs, job) == {j \in jobs : j.id # job.id} \cup {job}

\* scheduler.start(): the tentative jobs go to the job store in order
RECURSIVE add_pending(_, _)
add_pending(jobs, pend) ==
  IF pend = <<>> THEN jobs ELSE add_pending(real_add_job(jobs, Head(pend)), Tail(pend))

\* the order of the job store: run_date, then the id string
TypeRank(t) == CHOOSE i \in 1..Len(event_types) : event_types[i] = t

job_before(a, b) ==
  \/ a.run_date < b.run_date
  \/ a.run_date = b.run_date /\ a.id[2] < b.id[2]
  \/ a.run_date = b.run_date /\ a.id[2] = b.id[2] /\ TypeRank(a.id[3]) <= TypeRank(b.id[3])

due_jobs_early == store

due_jobs == {j \in store : j.run_date <= now}

next_due_latest == CHOOSE j \in due_jobs : \A k \in due_jobs : job_before(k, j)

next_due == CHOOSE j \in due_jobs : \A k \in due_jobs : job_before(j, k)

\* args=[embed]: what the job function is called with when the job fires
job_args_refetched(job) == [job.payload EXCEPT !.weather = Forecasts[weather]]

job_args(job) == job.payload

\* calls of send_discord_notification made so far for a job id
attempts(id) == Cardinality({p \in posts : p.id = id})

\* run_job's misfire test
is_missed(job) == now - job.run_date > MisfireGrace

\* fetch_schedule: the list, None, or the exception that leaves the function
fetch_schedule(outcome) ==
  IF outcome = "races" THEN "list"
  ELSE IF outcome \in {"request_error", "not_json"} THEN "None"
  ELSE "KeyError"

\* send_discord_notification, line 480: without a webhook URL it returns
\* before any request is made
post_attempted_always == TRUE

post_attempted == DISCORD_WEBHOOK_URL

\* send_discord_notification: how the call ends for each outcome of the POST
send_discord_notification(outcome) ==
  IF outcome = "transport_error" THEN "raised" ELSE "returned"

\* a value that may be missing (an unset environment variable, an absent or
\* null JSON field): None, or a string, which is a sequence of characters or
\* of longer pieces of text
Str(str) == [set |-> TRUE, value |-> str]

None == [set |-> FALSE, value |-> <<>>]

\* ------------------------------------------- NOTIFICATION_LEAD_MINUTES
\* lines 21-30. The environment value is unset or a string, a sequence of the
\* characters of EnvChars.

DEFAULT_LEAD_MINUTES == 180

Digits == {"0", "1", "8"}

EnvChars == Digits \cup {"-", " ", "."}

DigitValue(c) == IF c = "0" THEN 0 ELSE IF c = "1" THEN 1 ELSE 8

RECURSIVE lstrip(_)
lstrip(s) == IF s # <<>> /\ Head(s) = " " THEN lstrip(Tail(s)) ELSE s

RECURSIVE rstrip(_)
rstrip(s) == IF s # <<>> /\ s[Len(s)] = " " THEN rstrip(SubSeq(s, 1, Len(s) - 1)) ELSE s

RECURSIVE decimal(_)
decimal(s) == IF s = <<>> THEN 0 ELSE 10 * decimal(SubSeq(s, 1, Len(s) - 1)) + DigitValue(s[Len(s)])

all_digits(s) == s # <<>> /\ \A i \in 1..Len(s) : s[i] \in Digits

\* int(x) of a string: surrounding whitespace is dropped, then an optional
\* sign and one or more digits; anything else is a ValueError (ok is FALSE).
int_str(s) ==
  LET t == rstrip(lstrip(s))
      neg == t # <<>> /\ Head(t) = "-"
      d == IF neg THEN Tail(t) ELSE t
  IN  IF all_digits(d) THEN [ok |-> TRUE, value |-> IF neg THEN 0 - decimal(d) ELSE decimal(d)]
      ELSE [ok |-> FALSE, value |-> 0]

\* os.getenv('NOTIFICATION_LEAD_MINUTES', DEFAULT_LEAD_MINUTES), then int()
getenv_int(e) ==
  IF e.set THEN int_str(e.value) ELSE [ok |-> TRUE, value |-> DEFAULT_LEAD_MINUTES]

lead_minutes_unchecked(e) ==
  LET r == getenv_int(e) IN IF r.ok THEN r.value ELSE DEFAULT_LEAD_MINUTES

\* the module-level try/except of lines 23-30
lead_minutes(e) ==
  LET r == getenv_int(e) IN
  IF ~r.ok THEN DEFAULT_LEAD_MINUTES
  ELSE IF r.value < 0 THEN DEFAULT_LEAD_MINUTES
  ELSE r.value

\* str(n) of a non-negative integer
DigitChars == <<"0", "1", "2", "3", "4", "5", "6", "7", "8", "9">>

RECURSIVE str_int(_)
str_int(n) == IF n < 10 THEN <<DigitChars[n + 1]>> ELSE Append(str_int(n \div 10), DigitChars[(n % 10) + 1])

\* the environment of the scheduling runs: the lead times of Leads
LeadEnvs == {Str(str_int(n)) : n \in Leads}

\* ----------------------------------------------------------------- state

\* no grid or weather response is looked into
NoResponses ==
  /\ ergast = [outcome |-> "none", results |-> <<>>]
  /\ openf1 = [known |-> FALSE, outcome |-> "error", results |-> <<>>]
  /\ grid_data = None
  /\ pairs = <<>>
  /\ weather_data = <<>>
  /\ event_timestamp = 0
  /\ closest_forecast = 0

Init ==
  /\ now = 0
  /\ weather = 1
  /\ env \in LeadEnvs
  /\ lead = lead_minutes(env)
  /\ DISCORD_WEBHOOK_URL \in BOOLEAN
  /\ schedule = <<>>
  /\ args = "default"
  /\ pc = "fetch"
  /\ race = <<>>
  /\ remaining = 0
  /\ et = 1
  /\ pending = <<>>
  /\ store = {}
  /\ queue = {}
  /\ running = {}
  /\ posts = {}
  /\ sink_raised = FALSE
  /\ missed = {}
  /\ fetches = 0
  /\ NoResponses

\* the wall clock
Tick ==
  /\ now < MaxTime
  /\ pc \in {"pass", "running", "shutdown"}
  /\ now' = now + 1
  /\ UNCHANGED <<weather, lead, pc, race, remaining, et, pending, store, queue, running, posts, sink_raised, missed, fetches, conf>>

\* the upstream forecast changes
WeatherChange ==
  /\ pc \in {"pass", "running"}
  /\ weather < Len(Forecasts)
  /\ weather' = weather + 1
  /\ UNCHANGED <<now, lead, pc, race, remaining, et, pending, store, queue, running, posts, sink_raised, missed, fetches, conf>>

\* schedule_all_notifications, lines 633-636: the response holds n weekend
\* records. The list is read once, front to back, by the loop of line 642;
\* each record is drawn when the loop reaches it.
FetchSchedule ==
  /\ pc = "fetch"
  /\ \E outcome \in FetchOutcomes, n \in 0..MaxWeekends :
       IF fetch_schedule(outcome) = "KeyError"
       THEN pc' = "fetch_raised" /\ UNCHANGED <<race, remaining>>
       ELSE IF fetch_schedule(outcome) = "None" \/ n = 0
       THEN pc' = "done" /\ UNCHANGED <<race, remaining>>
       ELSE /\ pc' = "pass"
            /\ remaining' = n - 1
            /\ \E r \in WeekendRecords : race' = <<r>>
  /\ UNCHANGED <<now, weather, lead, et, pending, store, queue, running, posts, sink_raised, missed, fetches, conf>>

\* the two for loops of lines 642-644 move on to the next call
NextCall ==
  IF et < Len(event_types)
  THEN et' = et + 1 /\ UNCHANGED <<pc, race, remaining>>
  ELSE /\ et' = 1
       /\ IF remaining = 0
          THEN pc' = "check" /\ race' = <<>> /\ UNCHANGED remaining
          ELSE /\ remaining' = remaining - 1
               /\ \E r \in WeekendRecords : race' = <<r>>
               /\ UNCHANGED pc

\* one call of schedule_event_notification(scheduler, race, event_type)
schedule_event_notification(race_info, event_type, grid) ==
  LET event_dt_utc == format_event_time(race_info, event_type) IN
  IF ~gate(event_dt_utc)
  THEN NextCall /\ UNCHANGED <<pending, fetches>>
  ELSE IF embed_raises(race_info, event_type, grid)
  THEN /\ pc' = "crashed"
       /\ pending' = <<>>
       /\ fetches' = IF race_info.has_location THEN fetches + 1 ELSE fetches
       /\ UNCHANGED <<race, remaining, et>>
  ELSE /\ pending' = Append(pending, new_job(race_info, event_type, event_dt_utc))
       /\ fetches' = fetches + 1
       /\ NextCall

Evaluate ==
  /\ pc = "pass"
  /\ \E grid \in GridOutcomes : schedule_event_notification(Head(race), event_types[et], grid)
  /\ UNCHANGED <<now, weather, lead, store, queue, running, posts, sink_raised, missed, conf>>

\* lines 646-651: nothing to wait for, or scheduler.start()
StartScheduler_early ==
  /\ pc = "pass"
  /\ pending # <<>>
  /\ pc' = "running" /\ store' = add_pending({}, pending) /\ pending' = <<>>
  /\ UNCHANGED <<now, weather, lead, race, remaining, et, queue, running, posts, sink_raised, missed, fetches, conf>>

StartScheduler_always ==
  /\ pc = "check"
  /\ pc' = "running" /\ store' = add_pending({}, pending) /\ pending' = <<>>
  /\ UNCHANGED <<now, weather, lead, race, remaining, et, queue, running, posts, sink_raised, missed, fetches, conf>>

StartScheduler ==
  /\ pc = "check"
  /\ IF pending = <<>>
     THEN pc' = "done" /\ UNCHANGED <<pending, store>>
     ELSE pc' = "running" /\ store' = add_pending({}, pending) /\ pending' = <<>>
  /\ UNCHANGED <<now, weather, lead, race, remaining, et, queue, running, posts, sink_raised, missed, fetches, conf>>

\* a main loop whose trigger puts the job it hands over back for a later run
ProcessJobs_again ==
  /\ pc = "running"
  /\ due_jobs # {}
  /\ queue' = queue \cup {next_due}
  /\ store' = (store \ {next_due}) \cup {[next_due EXCEPT !.run_date = MaxTime + 1]}
  /\ UNCHANGED <<now, weather, lead, pc, race, remaining, et, pending, running, posts, sink_raised, missed, fetches, conf>>

\* the main loop hands the earliest due job to the executor
ProcessJobs ==
  /\ pc = "running"
  /\ due_jobs # {}
  /\ queue' = queue \cup {next_due}
  /\ store' = store \ {next_due}
  /\ UNCHANGED <<now, weather, lead, pc, race, remaining, et, pending, running, posts, sink_raised, missed, fetches, conf>>

\* a pool thread takes up a submitted job: the misfire test, then the call
\* send_discord_notification(embed), which returns at once without a webhook
\* URL and otherwise goes on to the POST
RunJob ==
  /\ \E job \in queue :
       /\ queue' = queue \ {job}
       /\ IF is_missed(job)
          THEN missed' = missed \cup {job.id} /\ UNCHANGED <<running, posts>>
          ELSE /\ running' = IF post_attempted THEN running \cup {job} ELSE running
               /\ posts' = posts \cup {[id |-> job.id, run_date |-> job.run_date, payload |-> job_args(job), n |-> attempts(job.id) + 1, forecast |-> Forecasts[weather]]}
               /\ UNCHANGED missed
  /\ UNCHANGED <<now, weather, lead, pc, race, remaining, et, pending, store, sink_raised, fetches, conf>>

\* requests.post comes back (or fails) and send_discord_notification ends
PostDone ==
  /\ \E job \in running, outcome \in PostOutcomes :
       /\ running' = running \ {job}
       /\ sink_raised' = (sink_raised \/ send_discord_notification(outcome) = "raised")
  /\ UNCHANGED <<now, weather, lead, pc, race, remaining, et, pending, store, queue, posts, missed, fetches, conf>>

\* KeyboardInterrupt in the main thread. Only scheduler.start() is inside the
\* try of lines 650-654: there the handler calls scheduler.shutdown(), which
\* stops the main loop and waits for the pool threads. Anywhere before, the
\* exception leaves schedule_all_notifications and the process ends with a
\* traceback.
Interrupt ==
  /\ pc \in {"fetch", "pass", "check", "running"}
  /\ IF pc = "running"
     THEN pc' = "shutdown" /\ UNCHANGED pending
     ELSE pc' = "interrupted" /\ pending' = <<>>
  /\ UNCHANGED <<now, weather, lead, race, remaining, et, store, queue, running, posts, sink_raised, missed, fetches, conf>>

\* scheduler.shutdown() returns when the pool threads are done (wait=True)
Shutdown ==
  /\ pc = "shutdown"
  /\ queue = {} /\ running = {}
  /\ pc' = "stopped"
  /\ UNCHANGED <<now, weather, lead, race, remaining, et, pending, store, queue, running, posts, sink_raised, missed, fetches, conf>>

Next ==
  \/ Tick
  \/ WeatherChange
  \/ FetchSchedule
  \/ Evaluate
  \/ StartScheduler
  \/ ProcessJobs
  \/ RunJob
  \/ PostDone
  \/ Interrupt
  \/ Shutdown

Spec == Init /\ [][Next]_vars


\* ----------------------------------------------------- format_event_time
\* The resolver on the strings of the schedule. A weekend record as fetched
\* carries its Race date and time as strings at the top level, the other
\* sessions' in sub-records; a field may be absent (None) or empty. A time
\* string is a sequence of pieces: a clock text, the UTC marker Z, an offset.

MaxTokens == 2    \* pieces of a time string of the input

ClockTexts == {"01:00:00", "02:00:00"}

ClockValue(c) == IF c = "01:00:00" THEN 1 ELSE 2

OffsetValue(o) == IF o = "+01:00" THEN 1 ELSE 0

TimeTokens == ClockTexts \cup {"Z", "+01:00"}

TimeStrings == UNION {[1..n -> TimeTokens] : n \in 0..MaxTokens}

\* one date the parser accepts (day 0 of the clock) and one it rejects
DateStrings == {<<>>, <<"2024-06-09">>, <<"soon">>}

Opt(strings) == {None} \cup {Str(x) : x \in strings}

DateTime == [date : Opt(DateStrings), time : Opt(TimeStrings)]

NoDateTime == [date |-> None, time |-> None]

RawSubRecords == UNION {[S -> DateTime] : S \in SUBSET SubTypes}

\* the fetched records: the Race fields or one sub-record filled in
RawRecords ==
  {r \in [season : Seasons, round : Rounds, date : Opt(DateStrings), time : Opt(TimeStrings), subs : RawSubRecords, has_location : {TRUE}] :
     r.subs = <<>> \/ (r.date = None /\ r.time = None)}

\* lines 312-319: the date and time fields read for the event type, or no
\* sub-record of that name
event_strings(race_info, event_type) ==
  IF event_type = "Race" THEN [found |-> TRUE, date |-> race_info.date, time |-> race_info.time]
  ELSE IF event_type \in DOMAIN race_info.subs
  THEN [found |-> TRUE, date |-> race_info.subs[event_type].date, time |-> race_info.subs[event_type].time]
  ELSE [found |-> FALSE, date |-> None, time |-> None]

\* line 321: `not x` of a field: None or the empty string
falsy(x) == ~x.set \/ x.value = <<>>

\* lines 326-327
keep_time_str(event_time_str) == event_time_str

ensure_Z(event_time_str) ==
  IF event_time_str[Len(event_time_str)] # "Z" THEN Append(event_time_str, "Z") ELSE event_time_str

\* str.replace('Z', '+00:00')
replace_Z(event_time_str) ==
  [i \in 1..Len(event_time_str) |-> IF event_time_str[i] = "Z" THEN "+00:00" ELSE event_time_str[i]]

\* datetime.fromisoformat of date + "T" + time: a date, a clock and at most
\* one offset; without an offset the datetime is naive. Anything else is a
\* ValueError. utc is the instant on the model's clock.
fromisoformat(date_str, time_str) ==
  IF /\ date_str = <<"2024-06-09">>
     /\ Len(time_str) \in {1, 2}
     /\ time_str[1] \in ClockTexts
     /\ Len(time_str) = 2 => time_str[2] \in {"+00:00", "+01:00"}
  THEN [error |-> "none", aware |-> Len(time_str) = 2, utc |-> ClockValue(time_str[1]) - (IF Len(time_str) = 2 THEN OffsetValue(time_str[2]) ELSE 0)]
  ELSE [error |-> "ValueError", aware |-> FALSE, utc |-> NoTime]

\* what format_event_time hands back: (None, None), or the datetime
NoneNone == [raised |-> FALSE, aware |-> FALSE, dt |-> NoTime]

\* lines 324-338: the try block
parse_uncaught(date_str, time_str) ==
  LET d == fromisoformat(date_str, replace_Z(ensure_Z(time_str))) IN
  [raised |-> d.error # "none", aware |-> d.aware, dt |-> d.utc]

parse(date_str, time_str) ==
  LET d == fromisoformat(date_str, replace_Z(ensure_Z(time_str))) IN
  IF d.error = "ValueError" THEN NoneNone
  ELSE [raised |-> FALSE, aware |-> d.aware, dt |-> d.utc]

\* format_event_time on the strings
format_event_time_str(race_info, event_type) ==
  LET f == event_strings(race_info, event_type) IN
  IF ~f.found THEN NoneNone
  ELSE IF falsy(f.date) \/ falsy(f.time) THEN NoneNone
  ELSE parse(f.date.value, f.time.value)

\* the record with every session resolved: what schedule_event_notification
\* goes on with after its line 499
resolved(race_info) ==
  LET dt(t) == format_event_time_str(race_info, t).dt IN
  [season |-> race_info.season, round |-> race_info.round, time |-> dt("Race"),
   subs |-> [t \in {u \in DOMAIN race_info.subs : dt(u) # NoTime} |-> dt(t)],
   has_location |-> race_info.has_location]

\* the schedule holds one record as fetched
InitResolve ==
  /\ now \in 0..1
  /\ weather = 1
  /\ env \in LeadEnvs
  /\ lead = lead_minutes(env)
  /\ DISCORD_WEBHOOK_URL = TRUE
  /\ schedule \in {<<r>> : r \in RawRecords}
  /\ args = "default"
  /\ pc = "fetch"
  /\ race = <<>>
  /\ remaining = 0
  /\ et = 1
  /\ pending = <<>>
  /\ store = {} /\ queue = {} /\ running = {} /\ posts = {} /\ missed = {}
  /\ sink_raised = FALSE
  /\ fetches = 0
  /\ NoResponses

\* the loop of line 642 takes the record; its sessions are resolved
ResolveRecord ==
  /\ pc = "fetch"
  /\ pc' = "pass"
  /\ race' = <<resolved(schedule[1])>>
  /\ UNCHANGED <<now, weather, lead, remaining, et, pending, store, queue, running, posts, sink_raised, missed, fetches, conf>>

NextResolve ==
  \/ ResolveRecord
  \/ Evaluate

ResolveSpec == InitResolve /\ [][NextResolve]_vars


\* ------------------------------------------------ loading the lead time
MaxEnvLen == 3    \* characters of the environment value

EnvStrings == UNION {[1..n -> EnvChars] : n \in 0..MaxEnvLen}

\* the module is imported with NOTIFICATION_LEAD_MINUTES unset or set to any
\* string
InitLead ==
  /\ env \in Opt(EnvStrings)
  /\ lead = 0
  /\ pc = "import"
  /\ now = 0
  /\ weather = 1
  /\ DISCORD_WEBHOOK_URL = TRUE
  /\ schedule = <<>>
  /\ args = "default"
  /\ race = <<>>
  /\ remaining = 0
  /\ et = 1
  /\ pending = <<>>
  /\ store = {} /\ queue = {} /\ running = {} /\ posts = {} /\ missed = {}
  /\ sink_raised = FALSE
  /\ fetches = 0
  /\ NoResponses

\* lines 23-30
LoadLead ==
  /\ pc = "import"
  /\ lead' = lead_minutes(env)
  /\ pc' = "loaded"
  /\ UNCHANGED <<now, weather, race, remaining, et, pending, store, queue, running, posts, sink_raised, missed, fetches, conf>>

NextLead == LoadLead

LeadSpec == InitLead /\ [][NextLead]_vars


\* ------------------------------------------------------------ the probes
\* --test-next-event and --test-previous-event: find_and_send_next_event and
\* find_and_send_previous_event, each one call that fetches the schedule,
\* selects a session, composes the embed and sends it.

EVENT_TYPES_ORDERED == <<"FirstPractice", "SecondPractice", "ThirdPractice", "Sprint", "Qualifying", "Race">>

EVENT_TYPES_REVERSED == [k \in 1..Len(EVENT_TYPES_ORDERED) |-> EVENT_TYPES_ORDERED[Len(EVENT_TYPES_ORDERED) + 1 - k]]

\* the season field of the fetched records: text
SeasonStrings == {<<"1">>, <<"8">>, <<"0", "8">>}

ProbeRecords == [season : {Str(x) : x \in SeasonStrings}, round : {1}, time : TimeOpt, subs : SubRecords, has_location : BOOLEAN]

\* the race lists the fetch returns (the empty one also stands for None)
ProbeSchedules == UNION {[1..n -> ProbeRecords] : n \in {0, 1, 2}}

NoEvent == [found |-> FALSE, i |-> 0, type |-> "Race", dt |-> NoTime]

\* the k-th turn of the two nested loops over races and event types
loop_race(k, order) == ((k - 1) \div Len(order)) + 1

loop_type(k, order) == order[((k - 1) % Len(order)) + 1]

\* lines 543-552: the loops of find_and_send_next_event from turn k on
RECURSIVE scan_next(_, _, _)
scan_next(races, k, best) ==
  IF k > Len(races) * Len(EVENT_TYPES_ORDERED) THEN best
  ELSE LET i == loop_race(k, EVENT_TYPES_ORDERED)
           t == loop_type(k, EVENT_TYPES_ORDERED)
           event_dt_utc == format_event_time(races[i], t)
       IN  scan_next(races, k + 1,
             IF event_dt_utc # NoTime /\ event_dt_utc > now /\ (~best.found \/ event_dt_utc < best.dt)
             THEN [found |-> TRUE, i |-> i, type |-> t, dt |-> event_dt_utc]
             ELSE best)

\* lines 605-615: the loops of find_and_send_previous_event from turn k on
RECURSIVE scan_previous(_, _, _)
scan_previous(races, k, best) ==
  IF k > Len(races) * Len(EVENT_TYPES_REVERSED) THEN best
  ELSE LET i == loop_race(k, EVENT_TYPES_REVERSED)
           t == loop_type(k, EVENT_TYPES_REVERSED)
           event_dt_utc == format_event_time(races[i], t)
       IN  scan_previous(races, k + 1,
             IF event_dt_utc # NoTime /\ event_dt_utc < now /\ (~best.found \/ event_dt_utc > best.dt)
             THEN [found |-> TRUE, i |-> i, type |-> t, dt |-> event_dt_utc]
             ELSE best)

\* lines 577-588: the set of int(season); "error" when a season is no number
season_numbers(races) ==
  LET given == {i \in 1..Len(races) : ~falsy(races[i].season)} IN
  IF \E i \in given : ~int_str(races[i].season.value).ok THEN [error |-> TRUE, seasons |-> {}]
  ELSE [error |-> FALSE, seasons |-> {int_str(races[i].season.value).value : i \in given}]

max(S) == CHOOSE n \in S : \A m \in S : m <= n

\* line 591: the indices of the races whose season field equals latest_season
season_indices(races, latest_season) ==
  {i \in 1..Len(races) : races[i].season = Str(latest_season)}

\* the list of those races, in order, with their indices in the schedule
RECURSIVE filter_seq(_, _, _)
filter_seq(races, keep, i) ==
  IF i > Len(races) THEN <<>>
  ELSE IF i \in keep THEN <<i>> \o filter_seq(races, keep, i + 1)
  ELSE filter_seq(races, keep, i + 1)

\* what a probe hands to send_discord_notification: the embed of the session
\* it selected (the i-th race of the schedule)
test_embed(sel) == [i |-> sel.i, type |-> sel.type, start |-> sel.dt]

InitProbe ==
  /\ args \in {"test_next_event", "test_previous_event"}
  /\ schedule \in ProbeSchedules
  /\ now \in 0..MaxTime
  /\ pc = "start"
  /\ DISCORD_WEBHOOK_URL = TRUE
  /\ env \in LeadEnvs
  /\ lead = lead_minutes(env)
  /\ weather = 1
  /\ race = <<>>
  /\ remaining = 0
  /\ et = 1
  /\ pending = <<>>
  /\ store = {} /\ queue = {} /\ running = {} /\ posts = {} /\ missed = {}
  /\ sink_raised = FALSE
  /\ fetches = 0
  /\ NoResponses

\* lines 554-566 and 617-628: compose the embed of the selected session and
\* call send_discord_notification, or report that there is none
send_test(races, sel, grid) ==
  IF ~sel.found THEN pc' = "done" /\ UNCHANGED <<posts, running>>
  ELSE IF embed_raises(races[sel.i], sel.type, grid) THEN pc' = "crashed" /\ UNCHANGED <<posts, running>>
  ELSE /\ posts' = {test_embed(sel)}
       /\ running' = IF post_attempted THEN {test_embed(sel)} ELSE {}
       /\ pc' = "sending"

find_and_send_next_event ==
  /\ pc = "start" /\ args = "test_next_event"
  /\ IF schedule = <<>> THEN pc' = "done" /\ UNCHANGED <<posts, running>>
     ELSE \E grid \in GridOutcomes : send_test(schedule, scan_next(schedule, 1, NoEvent), grid)
  /\ UNCHANGED <<now, weather, lead, race, remaining, et, pending, store, queue, sink_raised, missed, fetches, conf>>

find_and_send_previous_event ==
  /\ pc = "start" /\ args = "test_previous_event"
  /\ IF schedule = <<>> THEN pc' = "done" /\ UNCHANGED <<posts, running>>
     ELSE LET s == season_numbers(schedule) IN
          IF s.error \/ s.seasons = {} THEN pc' = "done" /\ UNCHANGED <<posts, running>>
          ELSE LET latest_season == str_int(max(s.seasons))
                   kept == filter_seq(schedule, season_indices(schedule, latest_season), 1)
                   latest_season_schedule == [k \in 1..Len(kept) |-> schedule[kept[k]]]
                   found == scan_previous(latest_season_schedule, 1, NoEvent)
                   sel == IF found.found THEN [found EXCEPT !.i = kept[found.i]] ELSE found
               IN  IF kept = <<>> THEN pc' = "done" /\ UNCHANGED <<posts, running>>
                   ELSE \E grid \in GridOutcomes : send_test(schedule, sel, grid)
  /\ UNCHANGED <<now, weather, lead, race, remaining, et, pending, store, queue, sink_raised, missed, fetches, conf>>

\* send_discord_notification has ended and the probe with it
ProbeReturn ==
  /\ pc = "sending"
  /\ running = {}
  /\ pc' = IF sink_raised THEN "send_raised" ELSE "done"
  /\ UNCHANGED <<now, weather, lead, race, remaining, et, pending, store, queue, running, posts, sink_raised, missed, fetches, conf>>

NextProbe ==
  \/ find_and_send_next_event
  \/ find_and_send_previous_event
  \/ PostDone
  \/ ProbeReturn

ProbeSpec == InitProbe /\ [][NextProbe]_vars


\* ------------------------------------------------------- the starting grid
\* GridSpec runs the grid part of create_discord_embed for one Race payload:
\* the Ergast request, the OpenF1 request when Ergast gave None, and the
\* table. The drivers of a response are numbered in response order; a
\* position is the text of the JSON value, or None when the entry has none.
\* fetches counts the requests made.

MaxGrid == 4

PositionTexts == {<<"1">>, <<"8">>, <<"1", "0">>, <<"1", "8">>, <<".">>}

Positions == {None} \cup {Str(t) : t \in PositionTexts}

ResultLists ==
  UNION {{[i \in 1..n |-> [position |-> ps[i], driver |-> i]] : ps \in [1..n -> Positions]} : n \in 0..MaxGrid}

ErgastOutcomes == {"rows", "empty", "http_error", "not_json", "transport_error"}

OpenF1Outcomes == {"rows", "no_session", "no_results", "error"}

\* key=lambda x: int(x.get('position', 99))
position_key(x) == IF x.position.set THEN int_str(x.position.value).value ELSE 99

\* int() of a position that is no integer raises ValueError
key_raises(x) == x.position.set /\ ~int_str(x.position.value).ok

\* list.sort is stable: x goes behind the rows whose key is not larger
RECURSIVE insort(_, _)
insort(rows, x) ==
  IF rows = <<>> THEN <<x>>
  ELSE IF position_key(rows[Len(rows)]) <= position_key(x) THEN Append(rows, x)
  ELSE Append(insort(SubSeq(rows, 1, Len(rows) - 1), x), rows[Len(rows)])

RECURSIVE sort(_)
sort(rows) ==
  IF rows = <<>> THEN <<>>
  ELSE insort(sort(SubSeq(rows, 1, Len(rows) - 1)), rows[Len(rows)])

\* the Ergast request: the rows as they came, sorted, or None; the handler
\* of a request that was never answered reads the unbound response
fetch_starting_grid(response) ==
  IF response.outcome = "transport_error" THEN [raised |-> TRUE, grid |-> None]
  ELSE IF response.outcome # "rows" \/ response.results = <<>> THEN [raised |-> FALSE, grid |-> None]
  ELSE IF \E i \in 1..Len(response.results) : key_raises(response.results[i])
    THEN [raised |-> FALSE, grid |-> None]
  ELSE [raised |-> FALSE, grid |-> Str(sort(response.results))]

\* the loop over results_data: entries without an integer position are
\* skipped, the others are rebuilt around int(position)
RECURSIVE formatted_grid(_)
formatted_grid(results_data) ==
  IF results_data = <<>> THEN <<>>
  ELSE LET result == Head(results_data)
       IN  IF ~result.position.set \/ key_raises(result) THEN formatted_grid(Tail(results_data))
           ELSE <<[position |-> Str(str_int(int_str(result.position.value).value)),
                   driver |-> result.driver]>> \o formatted_grid(Tail(results_data))

\* the requests the OpenF1 lookup makes: none without a circuit key, the
\* session request, then the results request
openf1_requests(response) ==
  IF ~response.known THEN 0
  ELSE IF response.outcome \in {"no_session", "error"} THEN 1
  ELSE 2

fetch_starting_grid_openf1(response) ==
  IF ~response.known \/ response.outcome # "rows" THEN None
  ELSE IF formatted_grid(response.results) = <<>> THEN None
  ELSE Str(sort(formatted_grid(response.results)))

\* f"{pos_str:<3} {driver_name}" of one row
col(x) == Str(<<x.position.value, x.driver>>)

\* grid_data[i]['position'] of a row that has no position raises KeyError
format_raises(grid) == \E i \in 1..Len(grid) : ~grid[i].position.set

\* the table with every driver next to the one half a field behind
RECURSIVE grid_pairs_half(_, _)
grid_pairs_half(grid, i) ==
  LET half == (Len(grid) + 1) \div 2
  IN  IF i > half THEN <<>>
      ELSE <<<<col(grid[i]), IF i + half <= Len(grid) THEN col(grid[i + half]) ELSE None>>>>
           \o grid_pairs_half(grid, i + 1)

\* for i in range(0, len(grid_data), 2): the row at i and the row behind it
RECURSIVE grid_pairs(_, _)
grid_pairs(grid, i) ==
  IF i > Len(grid) THEN <<>>
  ELSE <<<<col(grid[i]), IF i + 1 <= Len(grid) THEN col(grid[i + 1]) ELSE None>>>>
       \o grid_pairs(grid, i + 2)

InitGrid ==
  /\ now = 0 /\ weather = 1 /\ lead = 0
  /\ pc = "ergast"
  /\ race = <<>> /\ remaining = 0 /\ et = 1
  /\ pending = <<>> /\ store = {} /\ queue = {} /\ running = {} /\ posts = {}
  /\ sink_raised = FALSE /\ missed = {}
  /\ fetches = 0
  /\ DISCORD_WEBHOOK_URL = TRUE /\ schedule = <<>> /\ env = None /\ args = "default"
  /\ \E o \in ErgastOutcomes, k \in BOOLEAN, f \in OpenF1Outcomes, rs \in ResultLists :
       /\ (o = "rows" \/ ~k) => f = "error"
       /\ (o = "rows" \/ f = "rows") = (rs # <<>>)
       /\ ergast = [outcome |-> o, results |-> IF o = "rows" THEN rs ELSE <<>>]
       /\ openf1 = [known |-> k, outcome |-> f, results |-> IF f = "rows" THEN rs ELSE <<>>]
  /\ grid_data = None
  /\ pairs = <<>>
  /\ weather_data = <<>> /\ event_timestamp = 0 /\ closest_forecast = 0

\* grid_data = fetch_starting_grid(season, round)
FetchGrid ==
  /\ pc = "ergast"
  /\ LET r == fetch_starting_grid(ergast)
     IN  /\ grid_data' = r.grid
         /\ pc' = IF r.raised THEN "raised" ELSE IF r.grid = None THEN "openf1" ELSE "format"
  /\ fetches' = fetches + 1
  /\ UNCHANGED <<now, weather, lead, race, remaining, et, pending, store, queue, running, posts,
                 sink_raised, missed, DISCORD_WEBHOOK_URL, schedule, env, args, ergast, openf1,
                 pairs, weather_data, event_timestamp, closest_forecast>>

\* if grid_data is None: grid_data = fetch_starting_grid_openf1(...)
FetchGridOpenF1 ==
  /\ pc = "openf1"
  /\ grid_data' = fetch_starting_grid_openf1(openf1)
  /\ fetches' = fetches + openf1_requests(openf1)
  /\ pc' = "format"
  /\ UNCHANGED <<now, weather, lead, race, remaining, et, pending, store, queue, running, posts,
                 sink_raised, missed, DISCORD_WEBHOOK_URL, schedule, env, args, ergast, openf1,
                 pairs, weather_data, event_timestamp, closest_forecast>>

\* if grid_data: the pairs and the grid lines; the field is there when
\* grid_lines is not empty
FormatGrid ==
  /\ pc = "format"
  /\ IF ~grid_data.set THEN pc' = "built" /\ pairs' = pairs
     ELSE IF format_raises(grid_data.value) THEN pc' = "raised" /\ pairs' = pairs
     ELSE pc' = "built" /\ pairs' = grid_pairs(grid_data.value, 1)
  /\ UNCHANGED <<now, weather, lead, race, remaining, et, pending, store, queue, running, posts,
                 sink_raised, missed, fetches, DISCORD_WEBHOOK_URL, schedule, env, args, ergast,
                 openf1, grid_data, weather_data, event_timestamp, closest_forecast>>

NextGrid == FetchGrid \/ FetchGridOpenF1 \/ FormatGrid

GridSpec == InitGrid /\ [][NextGrid]_vars

\* ------------------------------------------------------ the forecast sample
\* WeatherSpec runs the loop of fetch_weather over one answered forecast:
\* weather_data is the 'dt' of each sample in list order, closest_forecast
\* the place of the chosen sample in the list (0 for None).

MaxSamples == 3

Stamps == 0..MaxTime

SampleLists == UNION {[1..n -> Stamps] : n \in 0..MaxSamples}

abs(n) == IF n < 0 THEN 0 - n ELSE n

\* min_time_diff = float('inf'), closest_forecast = None
NoForecast == [inf |-> TRUE, min_time_diff |-> 0, closest_forecast |-> 0]

\* a test that lets a sample at the same distance take over
closer_or_equal(time_diff, best) == best.inf \/ time_diff <= best.min_time_diff

\* if time_diff < min_time_diff
closer(time_diff, best) == best.inf \/ time_diff < best.min_time_diff

\* for forecast in weather_data.get('list', [])
RECURSIVE closest(_, _, _, _)
closest(list, timestamp, i, best) ==
  IF i > Len(list) THEN best
  ELSE LET time_diff == abs(timestamp - list[i])
       IN  IF closer(time_diff, best)
             THEN closest(list, timestamp, i + 1,
                          [inf |-> FALSE, min_time_diff |-> time_diff, closest_forecast |-> i])
           ELSE closest(list, timestamp, i + 1, best)

InitWeather ==
  /\ now = 0 /\ weather = 1 /\ lead = 0
  /\ pc = "weather"
  /\ race = <<>> /\ remaining = 0 /\ et = 1
  /\ pending = <<>> /\ store = {} /\ queue = {} /\ running = {} /\ posts = {}
  /\ sink_raised = FALSE /\ missed = {}
  /\ fetches = 0
  /\ DISCORD_WEBHOOK_URL = TRUE /\ schedule = <<>> /\ env = None /\ args = "default"
  /\ ergast = [outcome |-> "none", results |-> <<>>]
  /\ openf1 = [known |-> FALSE, outcome |-> "error", results |-> <<>>]
  /\ grid_data = None
  /\ pairs = <<>>
  /\ weather_data \in SampleLists
  /\ event_timestamp \in Stamps
  /\ closest_forecast = 0

\* the loop of fetch_weather over the answered list
FindClosest ==
  /\ pc = "weather"
  /\ closest_forecast' = closest(weather_data, event_timestamp, 1, NoForecast).closest_forecast
  /\ pc' = "weather_done"
  /\ UNCHANGED <<now, weather, lead, race, remaining, et, pending, store, queue, running, posts,
                 sink_raised, missed, fetches, DISCORD_WEBHOOK_URL, schedule, env, args, ergast,
                 openf1, grid_data, pairs, weather_data, event_timestamp>>

NextWeather == FindClosest

WeatherSpec == InitWeather /\ [][NextWeather]_vars

\* ------------------------------------------------------------ properties

\* the scheduler's job set: the stored jobs once it runs; before that, the
\* tentative jobs as start() will store them
LiveJobs == store \cup add_pending({}, pending)

\* every job the scheduler or its executor still holds
AllJobs == {pending[i] : i \in 1..Len(pending)} \cup store \cup queue \cup running

\* a step that is one call of schedule_event_notification
EvaluateCall == pc = "pass" /\ (et' # et \/ pc' \in {"check", "crashed"})

\* the session that call evaluates
CallId == job_id(Head(race), event_types[et])

CallStart == format_event_time(Head(race), event_types[et])

C2_RegistersIffFireInFuture ==
  [][EvaluateCall =>
       /\ (Len(pending') = Len(pending) + 1) <=> (CallStart # NoTime /\ CallStart - lead > now)
       /\ (CallStart # NoTime /\ CallStart - lead <= now) => (pending' = pending /\ pc' # "crashed")]_vars

\* C3: when an identity that has a live job is evaluated again with
\* start - lead <= now, no job of that identity is left in the live job set.
C3_PastFireInstantDropsJob ==
  [][(/\ EvaluateCall
      /\ CallStart # NoTime
      /\ CallStart - lead <= now
      /\ \E j \in LiveJobs : j.id = CallId)
     => ~(\E j \in LiveJobs' : j.id = CallId)]_vars

\* C4: each session identity is handed to the delivery sink at most once, never
\* before the job's fire instant, and a fired job is in the live job set no
\* more, whatever the outcome of its delivery.
C4_AtMostOnceNotEarlyNoRetry ==
  /\ \A p \in posts : p.n = 1 /\ p.run_date <= now
  /\ \A p, q \in posts : p.id = q.id => p = q
  /\ \A p \in posts : \A j \in LiveJobs \cup queue : j.id # p.id

\* a delivery has failed and its job is gone for good
C4_Witness ==
  /\ sink_raised
  /\ store = {} /\ queue = {} /\ running = {}
  /\ Cardinality(posts) = 2

\* C5: the payload a job is fired with is the payload composed when its
\* session was evaluated: payloads are composed only by a call of
\* schedule_event_notification, from the forecast fetched in that call; no
\* held job's payload changes afterwards; firing calls no fetcher and sends
\* the payload of the job it fires.
C5_PayloadIsTheOneComposedAtEvaluation ==
  [][/\ \A j \in AllJobs' \ AllJobs :
          /\ EvaluateCall
          /\ j.payload = create_discord_embed(Head(race), event_types[et], CallStart)
          /\ fetches' = fetches + 1
     /\ fetches' # fetches => EvaluateCall
     /\ \A p \in posts' \ posts :
          /\ fetches' = fetches
          /\ \E j \in queue : j.id = p.id /\ j.payload = p.payload /\ j.run_date = p.run_date]_vars

\* a job has been fired with the forecast of its evaluation although the
\* upstream forecast had changed by the time it fired
C5_Witness == \E p \in posts : p.forecast # p.payload.weather

\* C6: a failure while building the payload of one session does not abort the
\* pass: the pass goes on with the remaining sessions and the jobs registered
\* so far are kept.
C6_FailureDoesNotAbortPass == pc # "crashed"

\* C7: send_discord_notification returns without raising on every outcome of
\* the POST (success, non-success response, transport failure), and a failed
\* delivery does not keep later jobs from firing.
C7_SinkNeverRaises == ~sink_raised

C9_EveryStartedJobFires == missed = {}

\* C10 as stated: a job registered earlier fires at its fire instant although
\* the pass is still computing payloads, so no registered job is ever past
\* its fire instant and unfired during the pass.
C10_FiresWhilePassStalled == pc = "pass" => \A j \in LiveJobs : j.run_date >= now

\* C10 as amended: no job fires while sessions remain to be evaluated; the
\* jobs registered so far wait, unfired, for the pass to end and the
\* scheduler to start.
C10_NothingFiresDuringPass ==
  (pc = "pass" \/ race # <<>>) => (store = {} /\ queue = {} /\ running = {} /\ posts = {} /\ missed = {} /\ ~sink_raised)

\* the pass is still evaluating and a registered job's fire instant has passed
C10_Witness ==
  /\ pc = "pass"
  /\ \E i \in 1..Len(pending) : pending[i].run_date < now

\* C11: an interrupt at any point of the default mode, during the pass as
\* well as during the scheduler's wait, is not propagated as an uncaught
\* error; the scheduler shuts down, and once it has, no delivery is pending
\* or in progress.
C11_InterruptShutsDownCleanly ==
  /\ pc # "interrupted"
  /\ pc = "stopped" => (queue = {} /\ running = {})

\* C14: with no webhook URL configured every delivery is a no-op: no POST is
\* ever attempted, send_discord_notification never raises, and the scheduler
\* that called it goes on (it neither crashes nor stops by itself).
C14_NoWebhookNoPost ==
  ~DISCORD_WEBHOOK_URL =>
    /\ running = {}
    /\ ~sink_raised
    /\ posts # {} => pc \in {"running", "shutdown", "stopped"}

\* without a webhook URL two jobs have fired, one after the other, and the
\* scheduler is still waiting
C14_Witness ==
  /\ ~DISCORD_WEBHOOK_URL
  /\ pc = "running"
  /\ Cardinality(posts) = 2
  /\ \E p, q \in posts : p.run_date < q.run_date

\* C16: fetch_schedule never raises: on every outcome of the request,
\* a JSON body without the nesting of the race list included, it returns the
\* list or "unavailable", and on "unavailable" the pass ends with no job, no
\* delivery and no error.
C16_FetchScheduleNeverRaises ==
  /\ pc # "fetch_raised"
  /\ pc = "done" => (store = {} /\ queue = {} /\ posts = {})

\* C19: a call of schedule_event_notification on unchanged data (the identity
\* already has a live job with the same start and fire instant, from a record
\* that carries the same fields), the fire instant being in the future, leaves
\* the live job set with the same identities and that fire instant for the
\* identity.
C19_EvaluateIdempotent ==
  [][(/\ EvaluateCall
      /\ CallStart # NoTime
      /\ CallStart - lead > now
      /\ Head(race).has_location
      /\ \E j \in LiveJobs : j.id = CallId /\ j.run_date = CallStart - lead /\ j.payload.start = CallStart)
     => /\ {j.id : j \in LiveJobs'} = {j.id : j \in LiveJobs}
        /\ \A j \in LiveJobs' : j.id = CallId => j.run_date = CallStart - lead]_vars

\* C20: the pass reaches its end only after the last event type of the last
\* weekend; there, with an empty job set the run ends without starting the
\* scheduler, and with a non-empty one the scheduler starts with exactly
\* those jobs; a started scheduler stays in its loop, also when every job
\* has fired, until the interrupt.
C20_EndsOrWaitsUntilInterrupted ==
  [][/\ pc' = "check" => (pc = "pass" /\ et = Len(event_types) /\ remaining = 0)
     /\ (pc = "check" /\ pc' # "interrupted") =>
          IF LiveJobs = {} THEN pc' = "done" /\ store' = {}
          ELSE pc' = "running" /\ store' = LiveJobs
     /\ pc' = "running" => pc \in {"check", "running"}
     /\ pc = "running" => (pc' = "running" \/ Interrupt)]_vars

\* every job has fired and its delivery is over; the scheduler still waits
C20_Witness ==
  /\ pc = "running"
  /\ store = {} /\ queue = {} /\ running = {}
  /\ posts # {}

\* the strings of the fetched record for an event type
RawStrings(event_type) == event_strings(schedule[1], event_type)

\* the fetched record with the event type's time string replaced
WithTime(event_type, time_str) ==
  IF event_type = "Race" THEN [schedule[1] EXCEPT !.time = Str(time_str)]
  ELSE [schedule[1] EXCEPT !.subs[event_type].time = Str(time_str)]

\* the strings are a date and a UTC time of day, with or without the Z
IsUtcText(f) ==
  /\ f.found
  /\ f.date = Str(<<"2024-06-09">>)
  /\ f.time.set
  /\ \E c \in ClockTexts : f.time.value \in {<<c>>, <<c, "Z">>}

\* C12: every created job fires at the session's UTC start instant, as its
\* date and time strings give it, minus exactly the lead time; and a time
\* string without a trailing Z resolves to the same aware instant as the same
\* string with the Z appended.
C12_FireInstantIsStartMinusLead ==
  /\ \A i \in 1..Len(pending) :
       LET f == RawStrings(pending[i].id[3]) IN
       /\ IsUtcText(f)
       /\ pending[i].payload.start = ClockValue(f.time.value[1])
       /\ pending[i].run_date = ClockValue(f.time.value[1]) - lead
  /\ \A t \in EventTypes :
       LET f == RawStrings(t) IN
       (f.found /\ ~falsy(f.time) /\ f.time.value[Len(f.time.value)] # "Z") =>
         /\ format_event_time_str(schedule[1], t) = format_event_time_str(WithTime(t, Append(f.time.value, "Z")), t)
         /\ format_event_time_str(schedule[1], t).dt # NoTime => format_event_time_str(schedule[1], t).aware

\* a job has been created for a session whose time string has no Z
C12_Witness ==
  /\ pending # <<>>
  /\ Len(RawStrings(pending[1].id[3]).time.value) = 1
  /\ pending[1].run_date = 1

\* the session cannot be resolved: no sub-record of that name, a date or time
\* that is absent or empty, or strings that the parser rejects
Unresolvable(event_type) ==
  LET f == RawStrings(event_type) IN
  \/ ~f.found
  \/ falsy(f.date)
  \/ falsy(f.time)
  \/ fromisoformat(f.date.value, replace_Z(ensure_Z(f.time.value))).error = "ValueError"

\* C13: format_event_time never raises, and returns (None, None) when the
\* sub-record is absent, the date or time is absent or empty, or the strings
\* fail to parse; a call of schedule_event_notification for such a session
\* creates no job and raises nothing.
C13_ResolverTotal ==
  [][/\ \A t \in EventTypes :
          /\ ~format_event_time_str(schedule[1], t).raised
          /\ Unresolvable(t) => format_event_time_str(schedule[1], t) = NoneNone
     /\ (EvaluateCall /\ Unresolvable(event_types[et])) => (pending' = pending /\ pc' # "crashed")]_vars

\* the pass has gone past a Race whose date and time are there but do not
\* parse, and past a Qualifying that has no sub-record, with no job created
C13_Witness ==
  /\ pc = "pass"
  /\ et = 3
  /\ ~falsy(RawStrings("Race").date) /\ ~falsy(RawStrings("Race").time)
  /\ Unresolvable("Race")
  /\ ~RawStrings("Qualifying").found
  /\ pending = <<>>

\* the integers a string is a decimal literal of: optional blanks around an
\* optional minus sign and one or more digits
LiteralValues(s) ==
  {IF s[i] = "-" THEN 0 - decimal(SubSeq(s, i + 1, j)) ELSE decimal(SubSeq(s, i, j)) :
     <<i, j>> \in {<<a, b>> \in (1..Len(s)) \X (1..Len(s)) :
                     /\ a <= b
                     /\ \A k \in 1..Len(s) : (k < a \/ k > b) => s[k] = " "
                     /\ \A k \in (a + 1)..b : s[k] \in Digits
                     /\ s[a] \in Digits \/ (s[a] = "-" /\ a < b)}}

\* C15: the effective lead time is a non-negative integer: the configured
\* value when that is an integer literal >= 0, the default 180 when the
\* variable is unset, is no integer, or is negative.
C15_LeadTimeOrDefault ==
  pc = "loaded" =>
    /\ lead \in Nat
    /\ IF env.set /\ \E n \in LiteralValues(env.value) : n >= 0
       THEN lead \in LiteralValues(env.value)
       ELSE lead = 180

\* a negative value has been replaced by the default, or a padded literal
\* taken as its number
C15_Witness ==
  /\ pc = "loaded"
  /\ \/ env = Str(<<"-", "8">>) /\ lead = DEFAULT_LEAD_MINUTES
     \/ env = Str(<<" ", "8", " ">>) /\ lead = 8

\* the sessions of the fetched schedule: <<weekend index, place of the event
\* type in the order practice, sprint, qualifying, race>>
Sessions == (1..Len(schedule)) \X (1..Len(EVENT_TYPES_ORDERED))

StartOf(s) == format_event_time(schedule[s[1]], EVENT_TYPES_ORDERED[s[2]])

Upcoming == {s \in Sessions : StartOf(s) # NoTime /\ StartOf(s) > now}

\* the soonest upcoming session, the first in weekend order and then in
\* event order among equal starts
Soonest ==
  CHOOSE s \in Upcoming : \A u \in Upcoming :
    \/ StartOf(s) < StartOf(u)
    \/ StartOf(s) = StartOf(u) /\ s[1] < u[1]
    \/ StartOf(s) = StartOf(u) /\ s[1] = u[1] /\ s[2] <= u[2]

\* the next-event probe is past its selection and has not failed while
\* composing the embed: the sink has been handed the soonest upcoming
\* session once, or nothing when there is none
NextProbeSelection ==
  (args = "test_next_event" /\ pc \notin {"start", "crashed"}) =>
    IF Upcoming = {} THEN posts = {}
    ELSE posts = {[i |-> Soonest[1], type |-> EVENT_TYPES_ORDERED[Soonest[2]], start |-> StartOf(Soonest)]}

\* C17: the next-event probe hands the sink exactly one notification, for the
\* soonest session starting strictly after now (first in weekend order, then
\* in event order, among equal starts), whatever the lead time; it hands over
\* nothing when there is no such session.
C17_NextProbeDeliversSoonest ==
  (args = "test_next_event" /\ pc # "start") =>
    IF Upcoming = {} THEN posts = {}
    ELSE posts = {[i |-> Soonest[1], type |-> EVENT_TYPES_ORDERED[Soonest[2]], start |-> StartOf(Soonest)]}

\* the number a season field stands for
SeasonNumber(i) == int_str(schedule[i].season.value).value

\* the sessions of the latest season that started strictly before now
PastOfLatestSeason ==
  {s \in Sessions :
     /\ \A i \in 1..Len(schedule) : SeasonNumber(i) <= SeasonNumber(s[1])
     /\ StartOf(s) # NoTime
     /\ StartOf(s) < now}

\* the sessions whose season field is, as text, the latest season's number
PastOfLatestSeasonText ==
  {s \in PastOfLatestSeason : schedule[s[1]].season.value = str_int(SeasonNumber(s[1]))}

\* the previous-event probe is past its selection and has not failed while
\* composing the embed: the sink has been handed once the latest past
\* session among the records that spell the latest season as str() does
PreviousProbeSelection ==
  (args = "test_previous_event" /\ pc \notin {"start", "crashed"}) =>
    IF PastOfLatestSeasonText = {} THEN posts = {}
    ELSE /\ Cardinality(posts) = 1
         /\ \A p \in posts :
              /\ \E s \in PastOfLatestSeasonText : p = [i |-> s[1], type |-> EVENT_TYPES_ORDERED[s[2]], start |-> StartOf(s)]
              /\ \A s \in PastOfLatestSeasonText : StartOf(s) <= p.start

\* C18: the previous-event probe hands the sink exactly one notification,
\* for the session with the latest start strictly before now among the
\* records of the maximum season present; it hands over nothing when there
\* is no such session.
C18_PreviousProbeDeliversLatest ==
  (args = "test_previous_event" /\ pc # "start") =>
    IF PastOfLatestSeason = {} THEN posts = {}
    ELSE /\ Cardinality(posts) = 1
         /\ \A p \in posts :
              /\ \E s \in PastOfLatestSeason : p = [i |-> s[1], type |-> EVENT_TYPES_ORDERED[s[2]], start |-> StartOf(s)]
              /\ \A s \in PastOfLatestSeason : StartOf(s) <= p.start

\* the Ergast lookup answered with rows
ErgastGaveRows == fetch_starting_grid(ergast).grid.set

\* the entries of the response the grid was made from
GridInput == IF ErgastGaveRows THEN ergast.results ELSE openf1.results

\* the entry carries a position that int() accepts
IntegerPosition(x) == x.position.set /\ int_str(x.position.value).ok

\* C21: for a Race payload, when the primary grid source fails or answers
\* with nothing the fallback source is tried; when the lookup table has no
\* entry for the circuit the fallback makes no request, the grid block is
\* left out, nothing is raised and the payload is built (the job is then
\* registered).
C21_FallbackWhenPrimaryFails ==
  /\ (pc # "ergast" /\ ergast.outcome # "rows") => pc # "raised"
  /\ (pc \in {"format", "built"} /\ ~ErgastGaveRows /\ ~openf1.known) =>
       /\ fetches = 1
       /\ grid_data = None
       /\ pairs = <<>>

\* C22: the rows of every grid result, from either source, are in strictly
\* ascending position order, no two rows share a position, and they are
\* exactly the entries of the response that have an integer position.
C22_GridRowsStrictlySorted ==
  (pc \in {"format", "built", "raised"} /\ grid_data.set) =>
    LET rows == grid_data.value
    IN  /\ \A i \in 1..Len(rows) : IntegerPosition(rows[i])
        /\ \A i, j \in 1..Len(rows) : i < j => position_key(rows[i]) < position_key(rows[j])
        /\ {rows[i].driver : i \in 1..Len(rows)}
             = {GridInput[i].driver : i \in {k \in 1..Len(GridInput) : IntegerPosition(GridInput[k])}}
        /\ Len(rows) = Cardinality({rows[i].driver : i \in 1..Len(rows)})

\* where the column text of the driver at index i of the grid stands in the table
PlacesOf(i) ==
  {kc \in (1..Len(pairs)) \X {1, 2} : pairs[kc[1]][kc[2]] = col(grid_data.value[i])}

\* C23 (as the code has it): the table has one row per two drivers and
\* pairs the driver at each odd place of the sorted grid with the next one
\* (P1 with P2, P3 with P4, ...), the last one standing alone when the field
\* is odd; every driver is in the table exactly once. The table is not
\* built only when a row has no position to print.
C23_TablePairsNeighbours ==
  /\ (pc = "built" /\ grid_data.set) =>
       LET grid == grid_data.value
       IN  /\ Len(pairs) = (Len(grid) + 1) \div 2
           /\ \A k \in 1..Len(pairs) :
                /\ pairs[k][1] = col(grid[2 * k - 1])
                /\ pairs[k][2] = IF 2 * k <= Len(grid) THEN col(grid[2 * k]) ELSE None
           /\ \A i \in 1..Len(grid) : Cardinality(PlacesOf(i)) = 1
  /\ (pc = "raised" /\ grid_data.set) => format_raises(grid_data.value)

\* a table of two full rows has been built
C23_Witness ==
  /\ pc = "built"
  /\ grid_data.set
  /\ Len(grid_data.value) = 4
  /\ Len(pairs) = 2

\* C23 (as the specification has it): the driver at index N of the sorted
\* grid is paired with the driver at index N + half-the-field.
C23_TablePairsAcrossHalves ==
  (pc = "built" /\ grid_data.set /\ Len(grid_data.value) % 2 = 0) =>
    LET grid == grid_data.value
        half == Len(grid) \div 2
    IN  /\ Len(pairs) = half
        /\ \A k \in 1..half : pairs[k] = <<col(grid[k]), col(grid[k + half])>>

\* the distance in time of the sample at place i from the target instant
Distance(i) == abs(event_timestamp - weather_data[i])

\* C24: for every list of forecast samples that is not empty and every
\* target instant, the chosen sample is at the least distance in time from
\* the target, and it is the first of the list among those at that distance.
C24_ClosestSampleFirstOnTies ==
  (pc = "weather_done" /\ weather_data # <<>>) =>
    /\ closest_forecast \in 1..Len(weather_data)
    /\ \A j \in 1..Len(weather_data) : Distance(closest_forecast) <= Distance(j)
    /\ \A j \in 1..(closest_forecast - 1) : Distance(j) > Distance(closest_forecast)

\* a sample on the other side of the target, later in the list, is as close
\* as the chosen one
C24_Witness ==
  /\ pc = "weather_done"
  /\ closest_forecast # 0
  /\ \E j \in (closest_forecast + 1)..Len(weather_data) :
       /\ Distance(j) = Distance(closest_forecast)
       /\ weather_data[j] # weather_data[closest_forecast]

\* C25: in default mode the schedule is fetched once, before anything else,
\* and jobs are added only before the scheduler's loop starts: from then on
\* the job set never grows and no new job comes to be held, it shrinks only
\* by the job that fires, and with no job left the run stays in the loop
\* until the interrupt.
C25_JobsOnlyBeforeTheLoop ==
  [][/\ pc' # "fetch"
     /\ pc \in {"running", "shutdown", "stopped"} =>
          /\ LiveJobs' \subseteq LiveJobs
          /\ AllJobs' \subseteq AllJobs
          /\ pending' = <<>>
     /\ (pc = "running" /\ store' # store) =>
          \E j \in store : store' = store \ {j} /\ queue' = queue \cup {j}
     /\ (pc = "running" /\ LiveJobs = {}) => (pc' = "running" \/ Interrupt)]_vars

\* the clock has run out on a started scheduler that holds nothing any more
C25_Witness ==
  /\ pc = "running"
  /\ LiveJobs = {} /\ AllJobs = {}
  /\ posts # {}
  /\ now = MaxTime

\* C26: when the pass comes to a record whose (season, round) and event
\* type already have a job from an earlier record, a record that passes the
\* gate (fire instant strictly in the future) leaves the identity's one job
\* with its own fire instant and payload, and a record that is unavailable
\* or whose fire instant is not in the future leaves the earlier job as it
\* was.
C26_LastPassingRecordWins ==
  [][(EvaluateCall /\ \E j \in LiveJobs : j.id = CallId) =>
       /\ \E j \in LiveJobs' : j.id = CallId
       /\ IF gate(CallStart)
          THEN \A j \in LiveJobs' : j.id = CallId => j = new_job(Head(race), event_types[et], CallStart)
          ELSE \A j \in LiveJobs : j.id = CallId => j \in LiveJobs']_vars

====
